---- MODULE Spec2Model ----
(***************************************************************************)
(* KeyVault: a tree of (service, username) labels kept in a ttk.Treeview,  *)
(* the passwords kept in the OS keyring, and a JSON mirror of the tree on  *)
(* disk (library/widgets.py, library/utils.py).                            *)
(*                                                                         *)
(* Representation.                                                         *)
(*   - A Treeview is a sequence of service nodes, each a record            *)
(*     [text, children] with children a sequence of labels.  An item id    *)
(*     is the position of the node among its siblings; None is 0.          *)
(*   - A Python dict is a sequence of <<key, value>> pairs with pairwise   *)
(*     distinct keys, in insertion order.                                   *)
(*   - A JSON text is a sequence of tokens <<kind, value>>.                *)
(*   - The keyring is a function from <<service, username>> to password.   *)
(*   - The clipboard is <<>> (no text) or <<text>>.                        *)
(***************************************************************************)
EXTENDS Integers, Sequences, FiniteSets, TLC

VARIABLES
    service,        \* Variables.service       (StringVar)
    username,       \* Variables.username      (StringVar)
    password,       \* Variables.password      (StringVar)
    notification,   \* Variables.notification  (StringVar)
    clipboard,      \* the Tk clipboard
    tree,           \* SharedState.tree        (Treeview)
    keyring,        \* the OS credential store behind the keyring package
    cache_file,     \* the file CACHE on disk
    last,           \* name of the operation that produced this state
    prev,           \* name of the operation before that
    pastes,         \* number of times a paste button was pressed
    args,           \* arguments of the last direct Treeview call
    before,         \* number of username nodes before that call
    again,          \* the last direct call repeated the one before it
    heap,           \* the dict objects: SharedState.__shared__ and each
                    \* holder's dict as allocated
    ref,            \* the dict each holder's __dict__ refers to
    inited,         \* the holders whose SharedState.__init__ has run
    written,        \* per attribute, the value of the last assignment
    id,             \* ToolTip.id
    window,         \* ToolTip.window
    after_ids,      \* the callbacks Tk holds for widget.after
    toplevels,      \* the Toplevel windows that exist
    after_count,    \* number of widget.after calls so far
    fired,          \* the callbacks Tk has run
    cancelled       \* the callbacks handed to widget.after_cancel

vars == <<service, username, password, notification, clipboard, tree,
          keyring, cache_file, last, prev, pastes, args, before, again,
          heap, ref, inited, written,
          id, window, after_ids, toplevels, after_count, fired, cancelled>>

holder_vars == <<heap, ref, inited, written>>
tip_vars == <<id, window, after_ids, toplevels, after_count, fired, cancelled>>

-----------------------------------------------------------------------------
(* Bounds and input sets *)

\* the keyring holds at most this many secrets
MaxSecrets == 2

\* the paste buttons are pressed at most this many times
MaxPastes == 1

\* the pointer enters the widget of the tooltip at most this many times
MaxTimers == 5

\* a document handed to set_tree has at most this many keys / list items
MaxDocKeys == 2
MaxDocItems == 2

\* what the user types into the entries
ServiceNames == {"svc", "SVC"}
UserNames == {"u1", "u2"}
Passwords == {"p1", "p2"}

\* labels handed directly to add_username / del_username
TreeServices == {"Mail", "mail", "svc"}
TreeUsers == {"bob", "BOB", "u1"}

\* keys and list items of the documents handed directly to set_tree
DocServices == {"Mail", "mail"}
DocUsers == {"bob", "BOB"}

None == 0
ROOT == ""
NoFile == <<<<"missing", "">>>>

-----------------------------------------------------------------------------
(* str.lower() on the strings of the model *)

lower(s) ==
    CASE s = "SVC" -> "svc"
      [] s = "Mail" -> "mail"
      [] s = "BOB" -> "bob"
      [] s = "U1" -> "u1"
      [] OTHER -> s

-----------------------------------------------------------------------------
(* Python dict and json.dumps / json.loads *)

RECURSIVE dict_find(_, _, _)
dict_find(d, key, i) ==
    IF i > Len(d) THEN None
    ELSE IF d[i][1] = key THEN i
    ELSE dict_find(d, key, i + 1)

\* d.update({key: value}): replace in place, or append a new key
dict_update(d, key, value) ==
    LET i == dict_find(d, key, 1)
    IN  IF i = None THEN Append(d, <<key, value>>)
        ELSE [d EXCEPT ![i] = <<key, value>>]

RECURSIVE dumps_list(_, _)
dumps_list(items, i) ==
    IF i > Len(items) THEN << >>
    ELSE (IF i > 1 THEN << <<",", "">> >> ELSE << >>)
         \o << <<"str", items[i]>> >>
         \o dumps_list(items, i + 1)

RECURSIVE dumps_members(_, _)
dumps_members(d, i) ==
    IF i > Len(d) THEN << >>
    ELSE (IF i > 1 THEN << <<",", "">> >> ELSE << >>)
         \o << <<"str", d[i][1]>>, <<":", "">>, <<"[", "">> >>
         \o dumps_list(d[i][2], 1)
         \o << <<"]", "">> >>
         \o dumps_members(d, i + 1)

dumps(d) == << <<"{", "">> >> \o dumps_members(d, 1) \o << <<"}", "">> >>

\* parse the items of a list from token i on: [val, next]
RECURSIVE loads_list(_, _, _)
loads_list(toks, i, acc) ==
    IF toks[i][1] = "]" THEN [val |-> acc, next |-> i + 1]
    ELSE IF toks[i][1] = "," THEN loads_list(toks, i + 1, acc)
    ELSE loads_list(toks, i + 1, Append(acc, toks[i][2]))

\* parse the members of an object from token i on; a repeated key keeps
\* its last value
RECURSIVE loads_members(_, _, _)
loads_members(toks, i, d) ==
    IF toks[i][1] = "}" THEN d
    ELSE IF toks[i][1] = "," THEN loads_members(toks, i + 1, d)
    ELSE LET list == loads_list(toks, i + 3, << >>)
         IN  loads_members(toks, list.next, dict_update(d, toks[i][2], list.val))

loads(toks) == loads_members(toks, 2, << >>)

-----------------------------------------------------------------------------
(* utils.py and the cache *)

read_file(file) == file

write_file(data) == data

get_cache(file) ==
    IF file = NoFile THEN << >>
    ELSE loads(read_file(file))

set_cache(cache) == write_file(dumps(cache))

-----------------------------------------------------------------------------
(* Property deleters of SharedState: the StringVar is set to "" *)

service_deleter_keep(value) == value

service_deleter(value) == ""

username_deleter_keep(value) == value

username_deleter(value) == ""

password_deleter_keep(value) == value

password_deleter(value) == ""

-----------------------------------------------------------------------------
(* The clipboard property of SharedState *)

clipboard_set_none(value) == << >>

\* clipboard setter: clipboard_clear, then clipboard_append(value)
clipboard_set(value) == <<value>>

\* clipboard getter raises TclError when the clipboard holds no text
clipboard_empty(c) == Len(c) = 0

clipboard_get(c) == c[1]

-----------------------------------------------------------------------------
(* Notifications *)

\* the value None where a str is expected
MsgNone == "<None>"

show_info(message, msg) ==
    IF (msg # MsgNone) /\ (Len(msg) > 0) THEN "[INFO]: " \o msg ELSE message

show_warning(message, msg) ==
    IF (msg # MsgNone) /\ (Len(msg) > 0) THEN "[WARNING]: " \o msg ELSE message

show_error_always(message, msg) == "[ERROR]: " \o msg

show_error(message, msg) ==
    IF (msg # MsgNone) /\ (Len(msg) > 0) THEN "[ERROR]: " \o msg ELSE message

-----------------------------------------------------------------------------
(* The Treeview and the operations of SharedState on it *)

EmptyTree == << >>

RECURSIVE first_match_exact(_, _, _)
first_match_exact(labels, value, i) ==
    IF i > Len(labels) THEN None
    ELSE IF value = labels[i] THEN i
    ELSE first_match_exact(labels, value, i + 1)

RECURSIVE first_match(_, _, _)
first_match(labels, value, i) ==
    IF i > Len(labels) THEN None
    ELSE IF lower(value) = lower(labels[i]) THEN i
    ELSE first_match(labels, value, i + 1)

service_labels(t) == [i \in 1..Len(t) |-> t[i].text]

get_service_id(t, value) == first_match(service_labels(t), value, 1)

get_username_id(t, service_id, name) ==
    first_match(t[service_id].children, name, 1)

\* tree.insert(parent, END, text=...)
insert_service(t, text) == Append(t, [text |-> text, children |-> << >>])

insert_username_front(t, service_id, text) ==
    [t EXCEPT ![service_id].children = <<text>> \o @]

insert_username(t, service_id, text) ==
    [t EXCEPT ![service_id].children = Append(@, text)]

delete_service(t, service_id) ==
    [i \in 1..(Len(t) - 1) |-> IF i < service_id THEN t[i] ELSE t[i + 1]]

add_username_dup(t, svc, name) ==
    LET found == get_service_id(t, svc)
        t1 == IF found = None THEN insert_service(t, svc) ELSE t
        service_id == IF found = None THEN Len(t1) ELSE found
    IN  insert_username(t1, service_id, name)

add_username(t, svc, name) ==
    LET found == get_service_id(t, svc)
        t1 == IF found = None THEN insert_service(t, svc) ELSE t
        service_id == IF found = None THEN Len(t1) ELSE found
    IN  IF get_username_id(t1, service_id, name) = None
        THEN insert_username(t1, service_id, name)
        ELSE t1

del_username_noprune(t, svc, name) ==
    LET service_id == get_service_id(t, svc)
    IN  IF service_id = None THEN t
        ELSE [t EXCEPT ![service_id].children =
                 SelectSeq(@, LAMBDA account: lower(account) # lower(name))]

del_username_exact(t, svc, name) ==
    LET service_id == get_service_id(t, svc)
    IN  IF service_id = None THEN t
        ELSE LET kept == SelectSeq(t[service_id].children,
                                   LAMBDA account: account # name)
                 t1 == [t EXCEPT ![service_id].children = kept]
             IN  IF Len(kept) = 0 THEN delete_service(t1, service_id) ELSE t1

del_username(t, svc, name) ==
    LET service_id == get_service_id(t, svc)
    IN  IF service_id = None THEN t
        ELSE LET kept == SelectSeq(t[service_id].children,
                                   LAMBDA account: lower(account) # lower(name))
                 t1 == [t EXCEPT ![service_id].children = kept]
             IN  IF Len(kept) = 0 THEN delete_service(t1, service_id) ELSE t1

RECURSIVE get_tree_from(_, _, _)
get_tree_from(t, i, d) ==
    IF i > Len(t) THEN d
    ELSE get_tree_from(t, i + 1, dict_update(d, t[i].text, t[i].children))

get_tree(t) == get_tree_from(t, 1, << >>)

RECURSIVE set_tree_items(_, _, _, _)
set_tree_items(t, key, value, j) ==
    IF j > Len(value) THEN t
    ELSE set_tree_items(add_username(t, key, value[j]), key, value, j + 1)

RECURSIVE set_tree_from(_, _, _)
set_tree_from(t, cache, i) ==
    IF i > Len(cache) THEN t
    ELSE set_tree_from(set_tree_items(t, cache[i][1], cache[i][2], 1),
                       cache, i + 1)

set_tree(t, cache) == set_tree_from(t, cache, 1)

-----------------------------------------------------------------------------
(* The keyring package *)

keyring_has(k, svc, name) == <<svc, name>> \in DOMAIN k

keyring_get_password(k, svc, name) == k[<<svc, name>>]

keyring_set_password_swapped(k, svc, name, pw) ==
    [key \in (DOMAIN k) \cup {<<name, svc>>} |->
        IF key = <<name, svc>> THEN pw ELSE k[key]]

keyring_set_password(k, svc, name, pw) ==
    [key \in (DOMAIN k) \cup {<<svc, name>>} |->
        IF key = <<svc, name>> THEN pw ELSE k[key]]

keyring_delete_password_keep(k, svc, name) == k

keyring_delete_password(k, svc, name) ==
    [key \in (DOMAIN k) \ {<<svc, name>>} |-> k[key]]

-----------------------------------------------------------------------------
(* Initial state: KeyVault.__init__ with no cache file and an empty keyring *)

-----------------------------------------------------------------------------
(* The holders of the shared state and their attribute dicts *)

Holders == {"KeyVault", "TreeFrame", "ToolboxFrame"}
AttrNames == {"root", "tree", "cache"}
AttrValues == {"v1", "v2"}

\* an attribute name that is not a key of the dict
Unset == "<unset>"
EmptyDict == [a \in AttrNames |-> Unset]

\* d.update(other)
update(d, other) ==
    [a \in AttrNames |-> IF other[a] # Unset THEN other[a] ELSE d[a]]

\* the object self.__shared__ evaluates to through holder h
shared_per_holder(h) == h

shared(h) == "__shared__"

\* self.<a> for an attribute kept in the instance dict
getattr(h, a) == heap[ref[h]][a]

-----------------------------------------------------------------------------
(* Tk timers and windows of the tooltip *)

\* widget.after(delay, callback) registering callback t
after(ids, t) == ids \cup {t}

after_cancel_forget(ids, t) == ids

\* widget.after_cancel(t)
after_cancel(ids, t) == ids \ {t}

\* window.destroy()
destroy(wins, w) == wins \ {w}

-----------------------------------------------------------------------------
Init ==
    /\ heap = [d \in Holders \cup {"__shared__"} |-> EmptyDict]
    /\ ref = [h \in Holders |-> h]
    /\ inited = {}
    /\ written = EmptyDict
    /\ id = None
    /\ window = None
    /\ after_ids = {}
    /\ toplevels = {}
    /\ after_count = 0
    /\ fired = {}
    /\ cancelled = {}
    /\ service = ""
    /\ username = ""
    /\ password = ""
    /\ notification = ""
    /\ clipboard = << >>
    /\ tree = set_tree(EmptyTree, get_cache(NoFile))
    /\ keyring = << >>
    /\ cache_file = NoFile
    /\ last = "init"
    /\ prev = "init"
    /\ pastes = 0
    /\ args = << >>
    /\ before = 0
    /\ again = FALSE

Moved(op) == /\ last' = op
             /\ prev' = last
             /\ UNCHANGED <<pastes, args, before, again>>
             /\ UNCHANGED <<holder_vars, tip_vars>>

-----------------------------------------------------------------------------
(* The user types into an entry *)

edit_service(v) ==
    /\ service' = v
    /\ Moved("edit")
    /\ UNCHANGED <<username, password, notification, clipboard, tree,
                   keyring, cache_file>>

edit_username(v) ==
    /\ username' = v
    /\ Moved("edit")
    /\ UNCHANGED <<service, password, notification, clipboard, tree,
                   keyring, cache_file>>

edit_password(v) ==
    /\ password' = v
    /\ Moved("edit")
    /\ UNCHANGED <<service, username, notification, clipboard, tree,
                   keyring, cache_file>>

-----------------------------------------------------------------------------
(* TreeFrame.select: the focus item is child j of service i, or the service *)
(* node itself when j = 0                                                   *)

select(i, j) ==
    /\ i \in 1..Len(tree)
    /\ j \in 0..Len(tree[i].children)
    /\ LET parent == IF j = 0 THEN ROOT ELSE tree[i].text
           value == IF j = 0 THEN tree[i].text ELSE tree[i].children[j]
       IN  /\ password' = password_deleter(password)
           /\ IF parent = ROOT
              THEN /\ service' = value
                   /\ username' = username_deleter(username)
                   /\ notification' = show_info(notification, "Service selected.")
              ELSE /\ service' = parent
                   /\ username' = value
                   /\ notification' = show_info(notification, "Username selected.")
    /\ Moved("select")
    /\ UNCHANGED <<clipboard, tree, keyring, cache_file>>

(* ClearFrame.clear_entries *)
clear_entries ==
    /\ service' = service_deleter(service)
    /\ username' = username_deleter(username)
    /\ password' = password_deleter(password)
    /\ notification' = show_info(notification, "Cleared all entries!")
    /\ Moved("clear")
    /\ UNCHANGED <<clipboard, tree, keyring, cache_file>>

-----------------------------------------------------------------------------
(* ToolboxFrame *)

\* add_account / del_account: the tree after the call and the file written
add_account_stale(t, svc, name) ==
    LET data == get_tree(t)
        t1 == add_username(t, svc, name)
    IN  [tree |-> t1, file |-> set_cache(data)]

add_account(t, svc, name) ==
    LET t1 == add_username(t, svc, name)
        data == get_tree(t1)
    IN  [tree |-> t1, file |-> set_cache(data)]

del_account_stale(t, svc, name) ==
    LET data == get_tree(t)
        t1 == del_username(t, svc, name)
    IN  [tree |-> t1, file |-> set_cache(data)]

del_account(t, svc, name) ==
    LET t1 == del_username(t, svc, name)
        data == get_tree(t1)
    IN  [tree |-> t1, file |-> set_cache(data)]

\* the guards of the three buttons
get_password_ready(svc, name) == (Len(svc) > 0) /\ (Len(name) > 0)

set_password_ready_nopw(svc, name, pw) == Len(svc) > 0 /\ Len(name) > 0

set_password_ready_nouser(svc, name, pw) == Len(svc) > 0 /\ Len(pw) > 0

set_password_ready(svc, name, pw) ==
    Len(svc) > 0 /\ Len(name) > 0 /\ Len(pw) > 0

del_password_ready(svc, name) == Len(svc) > 0 /\ Len(name) > 0

\* the labels set_password hands to add_account
saved_account_pw(svc, name, pw) == <<svc, pw>>

saved_account(svc, name, pw) == <<svc, name>>

get_password ==
    /\ IF get_password_ready(service, username)
       THEN IF keyring_has(keyring, service, username)
            THEN LET value == keyring_get_password(keyring, service, username)
                     r == add_account(tree, service, username)
                 IN  /\ password' = value
                     /\ clipboard' = clipboard_set(value)
                     /\ tree' = r.tree
                     /\ cache_file' = r.file
                     /\ notification' =
                            show_info(notification, "Password retrieved from keyring.")
            ELSE LET r == del_account(tree, service, username)
                 IN  /\ password' = password_deleter(password)
                     /\ tree' = r.tree
                     /\ cache_file' = r.file
                     /\ notification' =
                            show_warning(notification, "Password not found!")
                     /\ UNCHANGED clipboard
       ELSE /\ password' = password_deleter(password)
            /\ notification' =
                   show_warning(notification, "Service and username cannot be empty!")
            /\ UNCHANGED <<clipboard, tree, cache_file>>
    /\ Moved("fetch")
    /\ UNCHANGED <<service, username, keyring>>

set_password ==
    /\ IF set_password_ready(service, username, password)
       THEN /\ \/ keyring_has(keyring, service, username)
               \/ Cardinality(DOMAIN keyring) < MaxSecrets
            /\ LET a == saved_account(service, username, password)
                   r == add_account(tree, a[1], a[2])
               IN  /\ keyring' = keyring_set_password(keyring, service,
                                                      username, password)
                   /\ tree' = r.tree
                   /\ cache_file' = r.file
                   /\ clipboard' = clipboard_set(password)
                   /\ notification' =
                          show_info(notification, "Password saved to keyring.")
       ELSE /\ notification' =
                   show_warning(notification,
                                "Service, username and password cannot be empty!")
            /\ UNCHANGED <<clipboard, tree, keyring, cache_file>>
    /\ Moved("save")
    /\ UNCHANGED <<service, username, password>>

del_password ==
    /\ IF del_password_ready(service, username)
       THEN LET r == del_account(tree, service, username)
            IN  /\ IF keyring_has(keyring, service, username)
                   THEN /\ keyring' = keyring_delete_password(keyring, service,
                                                              username)
                        /\ notification' =
                               show_info(notification,
                                         "Password deleted from keyring.")
                   ELSE /\ notification' =
                               show_warning(notification,
                                            "Password not found in keyring!")
                        /\ UNCHANGED keyring
                /\ tree' = r.tree
                /\ cache_file' = r.file
                /\ service' = service_deleter(service)
                /\ username' = username_deleter(username)
                /\ password' = password_deleter(password)
       ELSE /\ notification' =
                   show_warning(notification,
                                "Service and username cannot be empty!")
            /\ UNCHANGED <<service, username, password, tree, keyring,
                           cache_file>>
    /\ Moved("delete")
    /\ UNCHANGED clipboard

-----------------------------------------------------------------------------
(* AccountFrame: copy and paste buttons *)

Pasted(op) == /\ pastes < MaxPastes
              /\ pastes' = pastes + 1
              /\ last' = op
              /\ prev' = last
              /\ UNCHANGED <<args, before, again>>
              /\ UNCHANGED <<holder_vars, tip_vars>>

copy_service ==
    /\ clipboard' = clipboard_set(service)
    /\ notification' = show_info(notification, "Service copied to clipboard.")
    /\ Moved("copy_service")
    /\ UNCHANGED <<service, username, password, tree, keyring, cache_file>>

copy_username ==
    /\ clipboard' = clipboard_set(username)
    /\ notification' = show_info(notification, "Username copied to clipboard.")
    /\ Moved("copy_username")
    /\ UNCHANGED <<service, username, password, tree, keyring, cache_file>>

copy_password ==
    /\ clipboard' = clipboard_set(password)
    /\ notification' = show_info(notification, "Password copied to clipboard.")
    /\ Moved("copy_password")
    /\ UNCHANGED <<service, username, password, tree, keyring, cache_file>>

paste_service ==
    /\ IF clipboard_empty(clipboard)
       THEN /\ service' = service_deleter(service)
            /\ notification' = show_error(notification, "Clipboard empty!")
       ELSE /\ service' = clipboard_get(clipboard)
            /\ notification' =
                   show_info(notification, "Service pasted from clipboard.")
    /\ Pasted("paste_service")
    /\ UNCHANGED <<username, password, clipboard, tree, keyring, cache_file>>

paste_username ==
    /\ IF clipboard_empty(clipboard)
       THEN /\ username' = username_deleter(username)
            /\ notification' = show_error(notification, "Clipboard empty!")
       ELSE /\ username' = clipboard_get(clipboard)
            /\ notification' =
                   show_info(notification, "Username pasted from clipboard.")
    /\ Pasted("paste_username")
    /\ UNCHANGED <<service, password, clipboard, tree, keyring, cache_file>>

paste_password ==
    /\ IF clipboard_empty(clipboard)
       THEN /\ password' = password_deleter(password)
            /\ notification' = show_error(notification, "Clipboard empty!")
       ELSE /\ password' = clipboard_get(clipboard)
            /\ notification' =
                   show_info(notification, "Password pasted from clipboard.")
    /\ Pasted("paste_password")
    /\ UNCHANGED <<service, username, clipboard, tree, keyring, cache_file>>

-----------------------------------------------------------------------------
(* The application driven by the user *)

Next ==
    \/ \E v \in ServiceNames \cup {""} : edit_service(v)
    \/ \E v \in UserNames \cup {""} : edit_username(v)
    \/ \E v \in Passwords \cup {""} : edit_password(v)
    \/ \E i \in 1..Len(tree) : \E j \in 0..Len(tree[i].children) : select(i, j)
    \/ clear_entries
    \/ get_password
    \/ set_password
    \/ del_password

Spec == Init /\ [][Next]_vars

(* The same application with the copy and paste buttons; the user types    *)
(* one service, one username and one password                              *)
ClipServices == {"svc"}
ClipUsers == {"u1"}
ClipPasswords == {"p1"}

NextClip ==
    \/ \E v \in ClipServices \cup {""} : edit_service(v)
    \/ \E v \in ClipUsers \cup {""} : edit_username(v)
    \/ \E v \in ClipPasswords \cup {""} : edit_password(v)
    \/ \E i \in 1..Len(tree) : \E j \in 0..Len(tree[i].children) : select(i, j)
    \/ clear_entries
    \/ get_password
    \/ set_password
    \/ del_password
    \/ copy_service
    \/ copy_username
    \/ copy_password
    \/ paste_service
    \/ paste_username
    \/ paste_password

SpecClip == Init /\ [][NextClip]_vars

-----------------------------------------------------------------------------
(* The Treeview operations of SharedState called directly *)

\* the entries of a tree in display order, as <<service label, username label>>
RECURSIVE entries_from(_, _, _)
entries_from(t, i, j) ==
    IF i > Len(t) THEN << >>
    ELSE IF j > Len(t[i].children) THEN entries_from(t, i + 1, 1)
    ELSE << <<t[i].text, t[i].children[j]>> >> \o entries_from(t, i, j + 1)

Entries(t) == entries_from(t, 1, 1)

DocLists == UNION {[1..n -> DocUsers] : n \in 0..MaxDocItems}

Docs ==
    {d \in UNION {[1..n -> DocServices \X DocLists] : n \in 0..MaxDocKeys} :
        \A i, j \in 1..Len(d) : i # j => d[i][1] # d[j][1]}

Called(op, a) == /\ last' = op
                 /\ args' = a
                 /\ before' = Len(Entries(tree))
                 /\ again' = (last = op /\ args = a)
                 /\ UNCHANGED <<service, username, password, notification,
                                clipboard, keyring, cache_file, prev, pastes>>
                 /\ UNCHANGED <<holder_vars, tip_vars>>

call_add_username(svc, name) ==
    /\ tree' = add_username(tree, svc, name)
    /\ Called("add_username", <<svc, name>>)

call_del_username(svc, name) ==
    /\ tree' = del_username(tree, svc, name)
    /\ Called("del_username", <<svc, name>>)

call_set_tree(cache) ==
    /\ tree' = set_tree(tree, cache)
    /\ Called("set_tree", << >>)

\* a fresh Treeview filled from the export of the current one
call_reload ==
    /\ tree' = set_tree(EmptyTree, get_tree(tree))
    /\ Called("reload", << >>)

NextTree ==
    \/ \E svc \in TreeServices : \E name \in TreeUsers :
           call_add_username(svc, name)
    \/ \E svc \in TreeServices : \E name \in TreeUsers :
           call_del_username(svc, name)
    \/ \E cache \in Docs : call_set_tree(cache)
    \/ call_reload

SpecTree == Init /\ [][NextTree]_vars

-----------------------------------------------------------------------------
(* The notification helpers of SharedState called directly *)

NotifyMessages ==
    {MsgNone, "", "Service selected.", "Username selected.",
     "Cleared all entries!", "Password not found!", "Clipboard empty!"}

Notified(op, msg) ==
    /\ last' = op
    /\ args' = <<msg>>
    /\ UNCHANGED <<service, username, password, clipboard, tree, keyring,
                   cache_file, prev, pastes, before, again>>
    /\ UNCHANGED <<holder_vars, tip_vars>>

call_show_info(msg) ==
    /\ notification' = show_info(notification, msg)
    /\ Notified("show_info", msg)

call_show_warning(msg) ==
    /\ notification' = show_warning(notification, msg)
    /\ Notified("show_warning", msg)

call_show_error(msg) ==
    /\ notification' = show_error(notification, msg)
    /\ Notified("show_error", msg)

NextNotify ==
    \/ \E msg \in NotifyMessages : call_show_info(msg)
    \/ \E msg \in NotifyMessages : call_show_warning(msg)
    \/ \E msg \in NotifyMessages : call_show_error(msg)

SpecNotify == Init /\ [][NextNotify]_vars

-----------------------------------------------------------------------------
(* Holders are constructed and assign attributes *)

Wired(op, a) ==
    /\ last' = op
    /\ args' = a
    /\ UNCHANGED <<service, username, password, notification, clipboard,
                   tree, keyring, cache_file, prev, pastes, before, again>>

SharedState_init(h) ==
    /\ h \notin inited
    /\ heap' = [heap EXCEPT ![shared(h)] = update(@, heap[ref[h]])]
    /\ ref' = [ref EXCEPT ![h] = shared(h)]
    /\ inited' = inited \cup {h}
    /\ Wired("__init__", <<h>>)
    /\ UNCHANGED <<written, tip_vars>>

\* self.<a> = v in a constructor, after super().__init__()
setattr(h, a, v) ==
    /\ h \in inited
    /\ heap' = [heap EXCEPT ![ref[h]][a] = v]
    /\ written' = [written EXCEPT ![a] = v]
    /\ Wired("setattr", <<h, a, v>>)
    /\ UNCHANGED <<ref, inited, tip_vars>>

NextShared ==
    \/ \E h \in Holders : SharedState_init(h)
    \/ \E h \in Holders, a \in AttrNames, v \in AttrValues : setattr(h, a, v)

SpecShared == Init /\ [][NextShared]_vars

-----------------------------------------------------------------------------
(* The pointer enters and leaves the widget; Tk runs the delayed callback *)

cancel_ids == IF id # None THEN after_cancel(after_ids, id) ELSE after_ids
cancel_marks == IF id # None THEN cancelled \cup {id} ELSE cancelled
cancel_windows ==
    IF window # None THEN destroy(toplevels, window) ELSE toplevels

schedule ==
    /\ after_count < MaxTimers
    /\ after_count' = after_count + 1
    /\ after_ids' = after(cancel_ids, after_count + 1)
    /\ id' = after_count + 1
    /\ toplevels' = cancel_windows
    /\ window' = None
    /\ cancelled' = cancel_marks
    /\ Wired("schedule", << >>)
    /\ UNCHANGED <<fired, holder_vars>>

\* Tk runs callback t, which is ToolTip.enter
enter(t) ==
    /\ t \in after_ids
    /\ after_ids' = after_ids \ {t}
    /\ fired' = fired \cup {t}
    /\ toplevels' = toplevels \cup {t}
    /\ window' = t
    /\ id' = None
    /\ Wired("enter", <<t>>)
    /\ UNCHANGED <<after_count, cancelled, holder_vars>>

cancel ==
    /\ after_ids' = cancel_ids
    /\ id' = None
    /\ toplevels' = cancel_windows
    /\ window' = None
    /\ cancelled' = cancel_marks
    /\ Wired("cancel", << >>)
    /\ UNCHANGED <<after_count, fired, holder_vars>>

NextTip ==
    \/ schedule
    \/ \E t \in 1..MaxTimers : enter(t)
    \/ cancel

SpecTip == Init /\ [][NextTip]_vars

-----------------------------------------------------------------------------
(* Vocabulary of the properties *)

Matches(entry, svc, name) ==
    lower(entry[1]) = lower(svc) /\ lower(entry[2]) = lower(name)

NoEmptyService(t) == \A i \in 1..Len(t) : Len(t[i].children) > 0

UniqueIgnoringCase(t) ==
    /\ \A i, j \in 1..Len(t) : i # j => lower(t[i].text) # lower(t[j].text)
    /\ \A i \in 1..Len(t) : \A j, k \in 1..Len(t[i].children) :
          j # k => lower(t[i].children[j]) # lower(t[i].children[k])

FieldsEmpty == service = "" /\ username = "" /\ password = ""

Messages ==
    {"Service and username cannot be empty!",
     "Service, username and password cannot be empty!",
     "Password not found!",
     "Password not found in keyring!"}

IsWarning(message) == \E msg \in Messages : message = "[WARNING]: " \o msg

-----------------------------------------------------------------------------
(* C1: every entry of the tree, read as (service label, username label)    *)
(* exactly as stored, has a secret in the keyring under that key.          *)
C1_EveryEntryHasSecret ==
    \A i \in 1..Len(tree) : \A j \in 1..Len(tree[i].children) :
        keyring_has(keyring, tree[i].text, tree[i].children[j])

(* C2: after every operation, the document in the cache file (the empty    *)
(* document when the file is missing) equals get_tree() of the Treeview.   *)
C2_MirrorEqualsTree == get_cache(cache_file) = get_tree(tree)

C2_Witness ==
    /\ last = "delete"
    /\ notification = "[INFO]: Password deleted from keyring."
    /\ Len(tree) > 0
    /\ cache_file # NoFile
    /\ pastes > 0

(* C3: no two service nodes have labels equal ignoring case, no two        *)
(* usernames of one service have labels equal ignoring case; adding        *)
(* ("Mail", "bob") and then ("mail", "BOB") to the empty tree leaves one   *)
(* service node with one username child.                                   *)
C3_UniqueIgnoringCase ==
    /\ UniqueIgnoringCase(tree)
    /\ LET t == add_username(add_username(EmptyTree, "Mail", "bob"),
                             "mail", "BOB")
       IN  Len(t) = 1 /\ Len(t[1].children) = 1

C3_Witness ==
    /\ last = "add_username"
    /\ args = <<"mail", "BOB">>
    /\ before = 1
    /\ tree = <<[text |-> "Mail", children |-> <<"bob">>]>>

(* C4: no service node has zero children; del_username("svc", "u1") on the *)
(* tree {"svc": ["u1"]} yields the empty tree.                             *)
C4_NoEmptyService ==
    /\ NoEmptyService(tree)
    /\ del_username(<<[text |-> "svc", children |-> <<"u1">>]>>, "svc", "u1")
           = EmptyTree

C4_Witness ==
    /\ last = "del_username"
    /\ args = <<"svc", "u1">>
    /\ before = 1
    /\ tree = EmptyTree

(* C5: filling an empty Treeview from get_tree() of a tree gives a tree    *)
(* with the same get_tree(): same services, same usernames, same order,    *)
(* same letter case.                                                       *)
C5_RoundTrip ==
    [][last' = "reload" =>
          /\ get_tree(tree') = get_tree(tree)
          /\ Entries(tree') = Entries(tree)]_vars

C5_Witness ==
    /\ last = "reload"
    /\ Len(tree) = 2
    /\ tree[1].text = "svc"
    /\ tree[2].text = "Mail"
    /\ tree[2].children = <<"BOB", "u1">>

(* C6: add_username(s, u) called right after add_username(s, u) leaves the *)
(* tree as the first call left it.                                         *)
C6_AddTwice ==
    [][(last' = "add_username" /\ again') => tree' = tree]_vars

C6_Witness ==
    /\ last = "add_username"
    /\ again
    /\ args = <<"mail", "BOB">>
    /\ Len(tree) = 2

(* C7 as stated: after delete(), from any state of the fields, service,    *)
(* username and password are all empty.                                    *)
C7_DeleteAlwaysClears == last = "delete" => FieldsEmpty

(* C7 amended: delete() with service and username both non-empty leaves    *)
(* the three fields empty whether or not the keyring held the secret;      *)
(* delete() with service or username empty leaves the three fields as      *)
(* they were.                                                              *)
C7_DeleteClearsWhenReady ==
    [][last' = "delete" =>
          IF Len(service) > 0 /\ Len(username) > 0
          THEN service' = "" /\ username' = "" /\ password' = ""
          ELSE UNCHANGED <<service, username, password>>]_vars

C7_Witness ==
    /\ prev = "edit"
    /\ last = "delete"
    /\ notification = "[WARNING]: Password not found in keyring!"
    /\ FieldsEmpty
    /\ Len(tree) > 0

(* C8: save with service, username or password empty, and fetch or delete  *)
(* with service or username empty, leave the keyring, the tree and the     *)
(* cache file unchanged and set a warning notification.                    *)
C8_GuardAborts ==
    [][(\/ /\ last' = "save"
           /\ (service = "" \/ username = "" \/ password = "")
        \/ /\ last' \in {"fetch", "delete"}
           /\ (service = "" \/ username = ""))
       => /\ UNCHANGED <<keyring, tree, cache_file>>
          /\ IsWarning(notification')]_vars

C8_Witness ==
    /\ last = "save"
    /\ service # ""
    /\ username # ""
    /\ password = ""
    /\ IsWarning(notification)
    /\ Cardinality(DOMAIN keyring) > 0
    /\ cache_file # NoFile

(* C9: fetch with non-empty service s and username u that have no secret   *)
(* leaves no entry matching (s, u) ignoring case, no service without       *)
(* children and every other entry in place, writes get_tree() of the       *)
(* result to the cache file and warns "Password not found!"; on the tree   *)
(* {"svc": ["u1"]} the tree and the cache file become {}.                  *)
C9_FetchNotFound ==
    [][(/\ last' = "fetch"
        /\ Len(service) > 0
        /\ Len(username) > 0
        /\ ~keyring_has(keyring, service, username))
       => /\ Entries(tree') =
                SelectSeq(Entries(tree),
                          LAMBDA e : ~Matches(e, service, username))
          /\ NoEmptyService(tree')
          /\ cache_file' # NoFile
          /\ get_cache(cache_file') = get_tree(tree')
          /\ notification' = "[WARNING]: Password not found!"
          /\ (tree = <<[text |-> "svc", children |-> <<"u1">>]>>
                /\ service = "svc" /\ username = "u1")
             => (tree' = EmptyTree /\ get_cache(cache_file') = << >>)]_vars

C9_Witness ==
    /\ prev = "select"
    /\ last = "fetch"
    /\ notification = "[WARNING]: Password not found!"
    /\ service = "svc"
    /\ username = "u1"
    /\ tree = EmptyTree
    /\ cache_file = dumps(<< >>)

(* C10: save() with non-empty service, username and password p followed   *)
(* by fetch() yields password = p and clipboard = p.                       *)
C10_SaveThenFetch ==
    [][(/\ last = "save"
        /\ Len(service) > 0
        /\ Len(username) > 0
        /\ Len(password) > 0
        /\ last' = "fetch")
       => /\ password' = password
          /\ clipboard' = <<password>>]_vars

C10_Witness ==
    /\ prev = "save"
    /\ last = "fetch"
    /\ password = "p2"
    /\ clipboard = <<"p2">>
    /\ notification = "[INFO]: Password retrieved from keyring."
    /\ Cardinality(DOMAIN keyring) = MaxSecrets

-----------------------------------------------------------------------------
(* More vocabulary *)

SeqRange(seq) == {seq[i] : i \in 1..Len(seq)}

\* every string of the document in the cache file: keys and list items
MirrorStrings(file) ==
    LET doc == get_cache(file)
    IN  UNION {{doc[i][1]} \cup SeqRange(doc[i][2]) : i \in 1..Len(doc)}

TreeLabels(t) ==
    UNION {{t[i].text} \cup SeqRange(t[i].children) : i \in 1..Len(t)}

\* every text the user types into the password entry
TypedPasswords == Passwords \cup ClipPasswords

(* C12: delete() with non-empty service s and username u leaves no secret  *)
(* under (s, u), no entry matching (s, u) ignoring case and the cache file *)
(* equal to get_tree() of the resulting tree; when the keyring had no such *)
(* secret the notification is "[WARNING]: Password not found in keyring!". *)
C12_DeleteReconciles ==
    [][(last' = "delete" /\ Len(service) > 0 /\ Len(username) > 0)
       => /\ ~keyring_has(keyring', service, username)
          /\ \A e \in SeqRange(Entries(tree')) : ~Matches(e, service, username)
          /\ cache_file' # NoFile
          /\ get_cache(cache_file') = get_tree(tree')
          /\ ~keyring_has(keyring, service, username)
             => notification' = "[WARNING]: Password not found in keyring!"]_vars

C12_Witness ==
    /\ prev = "select"
    /\ last = "delete"
    /\ notification = "[WARNING]: Password not found in keyring!"
    /\ Len(tree) = 1
    /\ Cardinality(DOMAIN keyring) = MaxSecrets
    /\ cache_file = dumps(get_tree(tree))

(* C13: after fetch(), when service and username are non-empty and the     *)
(* keyring holds v under them, password = v, clipboard = v, the tree has   *)
(* an entry matching them ignoring case and the cache file has been        *)
(* written from the tree; in every other case password = "".               *)
C13_FetchResult ==
    [][last' = "fetch" =>
          IF Len(service) > 0 /\ Len(username) > 0
             /\ keyring_has(keyring, service, username)
          THEN /\ password' = keyring[<<service, username>>]
               /\ clipboard' = <<keyring[<<service, username>>]>>
               /\ \E e \in SeqRange(Entries(tree')) :
                      Matches(e, service, username)
               /\ cache_file' = dumps(get_tree(tree'))
          ELSE password' = ""]_vars

C13_Witness ==
    /\ last = "fetch"
    /\ notification = "[INFO]: Password retrieved from keyring."
    /\ service = "SVC"
    /\ password = "p1"
    /\ clipboard = <<"p1">>
    /\ tree = <<[text |-> "svc", children |-> <<"u2", "u1">>]>>

(* C14: select on a service node sets service to its label, username to    *)
(* "" and the notification to "[INFO]: Service selected."; select on a      *)
(* username node sets service to the parent's label, username to the       *)
(* node's label and the notification to "[INFO]: Username selected.";      *)
(* either way password = "" and the tree, the keyring and the cache file   *)
(* are unchanged.                                                          *)
C14_Select ==
    [][\A i \in 1..Len(tree) : \A j \in 0..Len(tree[i].children) :
          select(i, j) =>
             /\ password' = ""
             /\ UNCHANGED <<tree, keyring, cache_file>>
             /\ IF j = 0
                THEN /\ service' = tree[i].text
                     /\ username' = ""
                     /\ notification' = "[INFO]: Service selected."
                ELSE /\ service' = tree[i].text
                     /\ username' = tree[i].children[j]
                     /\ notification' = "[INFO]: Username selected."]_vars

C14_Witness ==
    /\ prev = "edit"
    /\ last = "select"
    /\ notification = "[INFO]: Username selected."
    /\ service = "SVC"
    /\ username = "u2"
    /\ password = ""
    /\ Cardinality(DOMAIN keyring) = 2

(* C15 as stated: the cache file never holds a password: no string of the  *)
(* document is a text typed into the password entry.                       *)
C15_NoPasswordInMirror == MirrorStrings(cache_file) \cap TypedPasswords = {}

(* C15 amended: after every step that changes the tree or the cache file,  *)
(* every string of the document in the cache file is a label of the tree;  *)
(* the step added to the document only the text of the service or the      *)
(* username entry; and while no paste button has been pressed no string of *)
(* the document is a text typed into the password entry.                   *)
C15_MirrorHoldsFieldTexts ==
    [][(cache_file' # cache_file \/ tree' # tree) =>
          LET mirror == MirrorStrings(cache_file')
          IN  /\ mirror \subseteq TreeLabels(tree')
              /\ mirror \subseteq
                     MirrorStrings(cache_file) \cup {service, username}
              /\ pastes' = 0 => mirror \cap TypedPasswords = {}]_vars

C15_Witness ==
    /\ last = "save"
    /\ notification = "[INFO]: Password saved to keyring."
    /\ username = "p1"
    /\ password = "p1"
    /\ "p1" \in MirrorStrings(cache_file)

(* C16: a paste with no text on the clipboard leaves the pasted field      *)
(* empty and the other two fields unchanged and sets the notification to   *)
(* "[ERROR]: Clipboard empty!"; a paste with text c on the clipboard       *)
(* leaves the pasted field equal to c.                                     *)
C16_Paste ==
    [][/\ last' = "paste_service" =>
             IF clipboard = << >>
             THEN /\ service' = ""
                  /\ UNCHANGED <<username, password>>
                  /\ notification' = "[ERROR]: Clipboard empty!"
             ELSE service' = clipboard[1]
       /\ last' = "paste_username" =>
             IF clipboard = << >>
             THEN /\ username' = ""
                  /\ UNCHANGED <<service, password>>
                  /\ notification' = "[ERROR]: Clipboard empty!"
             ELSE username' = clipboard[1]
       /\ last' = "paste_password" =>
             IF clipboard = << >>
             THEN /\ password' = ""
                  /\ UNCHANGED <<service, username>>
                  /\ notification' = "[ERROR]: Clipboard empty!"
             ELSE password' = clipboard[1]]_vars

C16_Witness ==
    /\ prev = "edit"
    /\ last = "paste_service"
    /\ notification = "[ERROR]: Clipboard empty!"
    /\ service = ""
    /\ username = "u1"
    /\ password = "p1"
    /\ clipboard = << >>

(* C18 as stated: save() with username empty sets the notification to      *)
(* exactly "Service, username and password cannot be empty!".              *)
C18_ExactString ==
    (last = "save" /\ username = "")
        => notification = "Service, username and password cannot be empty!"

(* C18 amended: save() with username empty sets the notification to the    *)
(* warning tag followed by the message:                                    *)
(* "[WARNING]: Service, username and password cannot be empty!".           *)
C18_TaggedString ==
    [][(last' = "save" /\ username = "")
       => notification' =
             "[WARNING]: Service, username and password cannot be empty!"]_vars

C18_Witness ==
    /\ last = "save"
    /\ service # ""
    /\ username = ""
    /\ password # ""
    /\ notification =
           "[WARNING]: Service, username and password cannot be empty!"

(* C19: del_username(s, u) leaves the tree unchanged when no entry matches *)
(* (s, u) ignoring case; otherwise it removes exactly the matching         *)
(* entries, keeps every other entry with its label and its place, and      *)
(* drops the service node only when it is left without children.           *)
C19_DelUsernameFrame ==
    [][last' = "del_username" =>
          LET hit == \E e \in SeqRange(Entries(tree)) :
                        Matches(e, args'[1], args'[2])
          IN  IF ~hit THEN tree' = tree
              ELSE /\ Entries(tree') =
                         SelectSeq(Entries(tree),
                                   LAMBDA e : ~Matches(e, args'[1], args'[2]))
                   /\ NoEmptyService(tree')
                   /\ service_labels(tree') =
                         SelectSeq(service_labels(tree),
                                   LAMBDA l : \E e \in SeqRange(Entries(tree')) :
                                                 e[1] = l)]_vars

C19_Witness ==
    /\ last = "del_username"
    /\ args = <<"mail", "BOB">>
    /\ before = 3
    /\ tree = <<[text |-> "svc", children |-> <<"u1">>],
                [text |-> "Mail", children |-> <<"u1">>]>>

(* C17: show_info, show_warning and show_error leave the notification      *)
(* unchanged when msg is None or empty and otherwise set it to "[INFO]: ", *)
(* "[WARNING]: " or "[ERROR]: " followed by msg, whatever it held before.  *)
C17_Notify ==
    [][last' \in {"show_info", "show_warning", "show_error"} =>
          LET msg == args'[1]
              tag == CASE last' = "show_info" -> "[INFO]: "
                       [] last' = "show_warning" -> "[WARNING]: "
                       [] last' = "show_error" -> "[ERROR]: "
          IN  IF msg = MsgNone \/ msg = ""
              THEN notification' = notification
              ELSE notification' = tag \o msg]_vars

C17_Witness ==
    /\ last = "show_error"
    /\ args = <<"">>
    /\ notification = "[WARNING]: Clipboard empty!"

(* C11: however the holders are constructed and whichever of them assigns, *)
(* every attribute read through a constructed holder is the value last     *)
(* assigned to that attribute through any holder, and all constructed      *)
(* holders refer to one and the same dict.                                 *)
C11_OneFieldSet ==
    /\ \A h \in inited : \A a \in AttrNames : getattr(h, a) = written[a]
    /\ \A h1 \in inited : \A h2 \in inited : ref[h1] = ref[h2]

C11_Witness ==
    /\ inited = Holders
    /\ last = "setattr"
    /\ args = <<"TreeFrame", "tree", "v2">>
    /\ getattr("KeyVault", "tree") = "v2"
    /\ getattr("ToolboxFrame", "root") = "v1"

(* C20: the tooltip has at most one delayed callback outstanding and at    *)
(* most one window, never both at once; a callback it cancelled never      *)
(* runs; and once the pointer has left there is neither a callback nor a   *)
(* window until the pointer enters again.                                  *)
C20_OneTimerOneWindow ==
    /\ Cardinality(after_ids) <= 1
    /\ Cardinality(toplevels) <= 1
    /\ after_ids = {} \/ toplevels = {}
    /\ cancelled \cap fired = {}
    /\ last = "cancel" => after_ids = {} /\ toplevels = {}
    /\ (id = None /\ window = None) => after_ids = {} /\ toplevels = {}

C20_Witness ==
    /\ last = "cancel"
    /\ fired = {1, 3}
    /\ cancelled = {2, 4}
====
